---- MODULE Spec2Model ----
(***************************************************************************)
(* Model of telegram_agent.py: the per-message handler handle_new_message, *)
(* the message logger log_to_db, the users / messages tables and the       *)
(* replies sent through the chat transport.                                *)
(*                                                                         *)
(* Every handler task is a small program counter machine.  Each external   *)
(* call (store, avatar download, typing indicator, model, transport send)  *)
(* either returns or raises; an exception carries one bit, whether its     *)
(* text contains the word "database" (line 200).  Strings are sequences of *)
(* tokens so that the path construction of lines 172-180 is computed.      *)
(***************************************************************************)
EXTENDS Naturals, Integers, Sequences, FiniteSets, Bags, TLC

\* ---------------------------------------------------------------- bounds
NumTasks == 2
MaxAdminOps == 2

Tasks == 1..NumTasks

\* ---------------------------------------------------------------- strings
\* Two sender identifiers: a plain one and one holding a backslash.
Ada == <<"ada">>
Odd == <<"a", "\\", "b">>
UserIds == {Ada, Odd}

\* profile_pic_rel_path = None (line 180); no path is the empty string.
None == <<>>

\* f"{user_identifier}.jpg" (line 172)
profile_pic_filename(u) == u \o <<".jpg">>

\* os.path.join(a, b): b replaces a when b is rooted (line 178)
path_join(a, b) ==
    IF Len(b) > 0 /\ b[1] = "/" THEN b ELSE a \o <<"/">> \o b

\* str.replace('\\', '/') (line 178)
replace_backslash(s) ==
    [i \in 1..Len(s) |-> IF s[i] = "\\" THEN "/" ELSE s[i]]

\* lines 177-180: the value bound to profile_pic_rel_path
rel_path(u, downloaded) ==
    IF downloaded
    THEN replace_backslash(path_join(<<"profile_pics">>, profile_pic_filename(u)))
    ELSE None

\* str.strip(): leading and trailing whitespace removed (line 150)
IsSpace(c) == c \in {" ", "\n", "\t"}

strip(s) ==
    LET keep == {i \in 1..Len(s) : ~IsSpace(s[i])}
    IN  IF keep = {}
        THEN <<>>
        ELSE SubSeq(s, CHOOSE i \in keep : \A j \in keep : i <= j,
                       CHOOSE i \in keep : \A j \in keep : j <= i)

\* an identifier that keeps the blanks around the names
user_identifier_unstripped(s) ==
    IF s.username # <<>>
    THEN s.username
    ELSE s.first_name \o <<" ">> \o s.last_name

\* lines 147-150.  A username or last name that is None and one that is ''
\* are both falsy there, so both are written <<>>.
user_identifier_of(s) ==
    IF s.username # <<>>
    THEN s.username
    ELSE strip(s.first_name \o <<" ">> \o s.last_name)

\* The senders of the events: one with a username, one with a first name only.
Senders ==
    { [username |-> Ada, first_name |-> <<"Ada">>, last_name |-> <<"Lovelace">>],
      [username |-> <<>>, first_name |-> Odd, last_name |-> <<>>] }

NoSender == [username |-> <<>>, first_name |-> <<>>, last_name |-> <<>>]

\* what load_prompt_config_from_txt returned at line 53
system_prompt == <<"SYSTEM">>
personas == (Ada :> <<"formal">>)
default_persona == <<"brief">>

\* event.text (line 182)
message_text == <<"hello">>

\* a lookup that forgets the fallback
personas_get_no_default(ps, u, d) ==
    IF u \in DOMAIN ps THEN ps[u] ELSE <<>>

\* personas.get(user_identifier, default_persona) (line 187)
personas_get(ps, u, d) ==
    IF u \in DOMAIN ps THEN ps[u] ELSE d

\* f"{persona}\n\n{message_text}" (line 188)
build_prompt(persona, text) == persona \o <<"\n", "\n">> \o text

\* ---------------------------------------------------------------- state
VARIABLES
    users,                  \* table users: set of rows [user_id, blocked]
    messages,               \* table messages: the bag of its rows
    pc,                     \* position of each handler task
    user_identifier,        \* local of the task (lines 147-150)
    pic_bound,              \* whether profile_pic_rel_path has been assigned
    profile_pic_rel_path,   \* local of the task (lines 177-180)
    exc,                    \* the exception caught at line 196
    sent,                   \* texts delivered to the sender, per event
    hist,                   \* per event, the steps taken so far, in order
    failed,                 \* per event, the steps that raised
    adminOps,               \* out-of-band updates done so far
    sender,                 \* local of the task (line 146)
    prompt,                 \* the prompt given to the model (line 189)
    conns,                  \* connections a task opened and has not closed
    prompt_call,            \* one prompt construction: inputs and result
    store,                  \* one store and the init_db runs against it
    parse                   \* one prompt_config.txt and its parse

\* the state of the handlers, and the state of the start-up functions
handlerVars == <<users, messages, pc, user_identifier, pic_bound,
                 profile_pic_rel_path, exc, sent, hist, failed, adminOps,
                 sender, prompt, conns>>
startupVars == <<prompt_call, store, parse>>

vars == <<handlerVars, startupVars>>

\* ---------------------------------------------------------------- store
\* a block check that lets every sender through
is_blocked_never(us, u) == FALSE

\* SELECT blocked FROM users WHERE user_id = u; result and result['blocked']
is_blocked(us, u) ==
    \E r \in us : r.user_id = u /\ r.blocked

\* an upsert that inserts nothing
upsert_user_skipped(us, u) == us

\* an upsert written as ON CONFLICT (user_id) DO UPDATE SET blocked = false
upsert_user_overwrite(us, u) ==
    {r \in us : r.user_id # u} \cup {[user_id |-> u, blocked |-> FALSE]}

\* INSERT INTO users (user_id, blocked) VALUES (u, false)
\*   ON CONFLICT (user_id) DO NOTHING; commit
upsert_user(us, u) ==
    IF \E r \in us : r.user_id = u
    THEN us
    ELSE us \cup {[user_id |-> u, blocked |-> FALSE]}

\* the row built at lines 120-123, without the id and timestamp columns
\* (ev names the event that appended it)
message_row(ev, direction, u, text, pic) ==
    [ev |-> ev, direction |-> direction, user_id |-> u,
     text |-> text, profile_pic_path |-> pic]

\* a log_to_db that executes its insert twice
log_to_db_twice(ms, ok, ev, direction, u, text, pic) ==
    IF ok
    THEN ms (+) SetToBag({message_row(ev, direction, u, text, pic)})
            (+) SetToBag({message_row(ev, direction, u, text, pic)})
    ELSE ms

\* log_to_db: the insert commits, or raises and is caught at line 127
log_to_db(ms, ok, ev, direction, u, text, pic) ==
    IF ok
    THEN ms (+) SetToBag({message_row(ev, direction, u, text, pic)})
    ELSE ms

\* a log_to_db without its try / except
log_to_db_reraises(ok) == ~ok

\* whether log_to_db lets the store error out to its caller: the
\* except Exception clause of lines 127-128 catches every one of them
log_to_db_raises(ok) == FALSE

\* an except clause that logs every error description
logs_error_always(e) == TRUE

\* line 200: "database" not in str(e).lower()
logs_error(e) == e # "database"

\* ---------------------------------------------------------------- init
HandlersIdle ==
    /\ users = {}
    /\ messages = EmptyBag
    /\ pc = [t \in Tasks |-> "idle"]
    /\ user_identifier = [t \in Tasks |-> None]
    /\ pic_bound = [t \in Tasks |-> FALSE]
    /\ profile_pic_rel_path = [t \in Tasks |-> None]
    /\ exc = [t \in Tasks |-> "none"]
    /\ sent = [t \in Tasks |-> <<>>]
    /\ hist = [t \in Tasks |-> <<>>]
    /\ failed = [t \in Tasks |-> {}]
    /\ adminOps = 0
    /\ sender = [t \in Tasks |-> NoSender]
    /\ prompt = [t \in Tasks |-> <<>>]
    /\ conns = [t \in Tasks |-> 0]

\* the start-up functions have run; nothing of them is under observation
Unused == [state |-> "unused"]

Init ==
    /\ HandlersIdle
    /\ prompt_call = Unused
    /\ store = Unused
    /\ parse = Unused

\* ---------------------------------------------------------------- helpers
\* a handler that appends the outbound row first and sends the reply after
after_swapped(p) ==
    CASE p = "idle"        -> "connect"
      [] p = "connect"     -> "block_check"
      [] p = "block_check" -> "upsert"
      [] p = "upsert"      -> "download"
      [] p = "download"    -> "log_in"
      [] p = "log_in"      -> "typing"
      [] p = "typing"      -> "generate"
      [] p = "generate"    -> "generating"
      [] p = "generating"  -> "log_out"
      [] p = "log_out"     -> "respond"
      [] p = "respond"     -> "typing_exit"
      [] p = "typing_exit" -> "replied"
      [] p = "except"      -> "apologize"
      [] p = "apologize"   -> "errored"

\* a handler that calls the model again when the call has returned
after_retry(p) ==
    CASE p = "idle"        -> "connect"
      [] p = "connect"     -> "block_check"
      [] p = "block_check" -> "upsert"
      [] p = "upsert"      -> "download"
      [] p = "download"    -> "log_in"
      [] p = "log_in"      -> "typing"
      [] p = "typing"      -> "generate"
      [] p = "generate"    -> "generating"
      [] p = "generating"  -> "generate"
      [] p = "respond"     -> "log_out"
      [] p = "log_out"     -> "typing_exit"
      [] p = "typing_exit" -> "replied"
      [] p = "except"      -> "apologize"
      [] p = "apologize"   -> "errored"

\* a handler that appends the inbound row before it resolves the avatar
after_avatar_late(p) ==
    CASE p = "idle"        -> "connect"
      [] p = "connect"     -> "block_check"
      [] p = "block_check" -> "upsert"
      [] p = "upsert"      -> "log_in"
      [] p = "log_in"      -> "download"
      [] p = "download"    -> "typing"
      [] p = "typing"      -> "generate"
      [] p = "generate"    -> "generating"
      [] p = "generating"  -> "respond"
      [] p = "respond"     -> "log_out"
      [] p = "log_out"     -> "typing_exit"
      [] p = "typing_exit" -> "replied"
      [] p = "except"      -> "apologize"
      [] p = "apologize"   -> "errored"

\* The statements of handle_new_message in program order: the position
\* reached when the step at position p returns without raising.
after(p) ==
    CASE p = "idle"        -> "connect"        \* lines 144-150
      [] p = "connect"     -> "block_check"    \* lines 153-154
      [] p = "block_check" -> "upsert"         \* lines 157-159
      [] p = "upsert"      -> "download"       \* lines 166-169
      [] p = "download"    -> "log_in"         \* lines 172-180
      [] p = "log_in"      -> "typing"         \* lines 182-184
      [] p = "typing"      -> "generate"       \* line 186
      [] p = "generate"    -> "generating"     \* lines 187-189
      [] p = "generating"  -> "respond"        \* lines 189-190
      [] p = "respond"     -> "log_out"        \* lines 192-193
      [] p = "log_out"     -> "typing_exit"    \* line 194
      [] p = "typing_exit" -> "replied"        \* end of the handler
      [] p = "except"      -> "apologize"      \* lines 197-201
      [] p = "apologize"   -> "errored"        \* line 202

\* The positions at which a handler has ended.
Ended == {"ignored", "replied", "errored", "raised"}

\* the step of task t at its position returned
goto_next(t) ==
    /\ pc' = [pc EXCEPT ![t] = after(pc[t])]
    /\ UNCHANGED <<exc, failed>>

\* the step of task t at its position raised inside the try block; the text
\* of the exception holds "database" iff db (lines 196-200)
raise(t, db) ==
    /\ pc' = [pc EXCEPT ![t] = "except"]
    /\ exc' = [exc EXCEPT ![t] = IF db THEN "database" ELSE "other"]
    /\ failed' = [failed EXCEPT ![t] = @ \cup {pc[t]}]

\* an exception leaves handle_new_message
escape(t, step) ==
    /\ pc' = [pc EXCEPT ![t] = "raised"]
    /\ failed' = [failed EXCEPT ![t] = @ \cup {step}]
    /\ UNCHANGED exc

note(t, label) == hist' = [hist EXCEPT ![t] = Append(@, label)]

\* get_db_connection() opened a connection for task t (lines 153, 118)
opened(t) == conns' = [conns EXCEPT ![t] = @ + 1]

\* conn.close() (lines 162, 169, 126)
closed(t) == conns' = [conns EXCEPT ![t] = @ - 1]

\* log_to_db opens a connection and closes it at line 126, which is skipped
\* when the insert or the commit raises
logged(t, ok) == conns' = [conns EXCEPT ![t] = IF ok THEN @ ELSE @ + 1]

\* what the users table holds for u when a step looks at it
observed(us, u) ==
    IF [user_id |-> u, blocked |-> TRUE] \in us THEN "blocked" ELSE "clear"

\* a handler that calls the model on the event loop instead of a thread
MidSync_model_on_loop ==
    {"block_check", "upsert", "log_in", "generate", "generating", "log_out",
     "except"}

\* The handlers are coroutines of one event loop: a task that has been
\* resumed runs until its next await.  At these positions a task is between
\* two awaits (the store calls of psycopg2 and log_to_db do not yield).
MidSync == {"block_check", "upsert", "log_in", "generate", "log_out", "except"}

\* task t may take a step: no other task is in the middle of a synchronous run
scheduled(t) == \A s \in Tasks \ {t} : pc[s] \notin MidSync

\* ---------------------------------------------------------------- handler
\* lines 144-150: the transport dispatches events one after the other
Dispatch(t) ==
    /\ pc[t] = "idle"
    /\ \A s \in Tasks : s < t => pc[s] # "idle"
    /\ scheduled(t)
    /\ UNCHANGED startupVars
    /\ \E s \in Senders :
        /\ sender' = [sender EXCEPT ![t] = s]
        /\ user_identifier' = [user_identifier EXCEPT
                                    ![t] = user_identifier_of(s)]
    /\ goto_next(t)
    /\ UNCHANGED <<users, messages, pic_bound, profile_pic_rel_path,
                   sent, hist, adminOps, prompt, conns>>

\* lines 153-154
Connect(t) ==
    /\ pc[t] = "connect"
    /\ scheduled(t)
    /\ UNCHANGED startupVars
    /\ \/ goto_next(t) /\ opened(t)
       \/ (\E db \in BOOLEAN : raise(t, db)) /\ UNCHANGED conns
    /\ UNCHANGED <<users, messages, user_identifier, pic_bound,
                   profile_pic_rel_path, sent, hist, adminOps, sender, prompt>>

\* lines 156-163
BlockCheck(t) ==
    /\ pc[t] = "block_check"
    /\ scheduled(t)
    /\ UNCHANGED startupVars
    /\ \/ /\ IF is_blocked(users, user_identifier[t])
             THEN /\ pc' = [pc EXCEPT ![t] = "ignored"]
                  /\ closed(t)
                  /\ UNCHANGED <<exc, failed>>
             ELSE goto_next(t) /\ UNCHANGED conns
          /\ note(t, "check:" \o observed(users, user_identifier[t]))
       \/ /\ \E db \in BOOLEAN : raise(t, db)
          /\ UNCHANGED <<hist, conns>>
    /\ UNCHANGED <<users, messages, user_identifier, pic_bound,
                   profile_pic_rel_path, sent, adminOps, sender, prompt>>

\* lines 165-169
Upsert(t) ==
    /\ pc[t] = "upsert"
    /\ scheduled(t)
    /\ UNCHANGED startupVars
    /\ \/ /\ users' = upsert_user(users, user_identifier[t])
          /\ goto_next(t)
          /\ closed(t)
          /\ note(t, "upsert:" \o observed(users, user_identifier[t]))
       \/ /\ \E db \in BOOLEAN : raise(t, db)
          /\ UNCHANGED <<users, hist, conns>>
    /\ UNCHANGED <<messages, user_identifier, pic_bound,
                   profile_pic_rel_path, sent, adminOps, sender, prompt>>

\* lines 171-180
Download(t) ==
    /\ pc[t] = "download"
    /\ scheduled(t)
    /\ UNCHANGED startupVars
    /\ \/ /\ \E downloaded \in BOOLEAN :
                /\ profile_pic_rel_path' = [profile_pic_rel_path EXCEPT
                        ![t] = rel_path(user_identifier[t], downloaded)]
                /\ note(t, IF downloaded THEN "avatar" ELSE "no_avatar")
          /\ pic_bound' = [pic_bound EXCEPT ![t] = TRUE]
          /\ goto_next(t)
       \/ /\ \E db \in BOOLEAN : raise(t, db)
          /\ UNCHANGED <<pic_bound, profile_pic_rel_path, hist>>
    /\ UNCHANGED <<users, messages, user_identifier, sent, adminOps,
                   sender, prompt, conns>>

\* lines 182-184
LogIn(t) ==
    /\ pc[t] = "log_in"
    /\ scheduled(t)
    /\ UNCHANGED startupVars
    /\ \E ok \in BOOLEAN :
        /\ messages' = log_to_db(messages, ok, t, "in", user_identifier[t],
                                 "message_text", profile_pic_rel_path[t])
        /\ note(t, IF ok THEN "in" ELSE "in_lost")
        /\ logged(t, ok)
        /\ IF log_to_db_raises(ok) THEN raise(t, FALSE) ELSE goto_next(t)
    /\ UNCHANGED <<users, user_identifier, pic_bound, profile_pic_rel_path,
                   sent, adminOps, sender, prompt>>

\* line 186: entering client.action(..., 'typing')
TypingEnter(t) ==
    /\ pc[t] = "typing"
    /\ scheduled(t)
    /\ UNCHANGED startupVars
    /\ \/ goto_next(t)
       \/ \E db \in BOOLEAN : raise(t, db)
    /\ UNCHANGED <<users, messages, user_identifier, pic_bound,
                   profile_pic_rel_path, sent, hist, adminOps,
                   sender, prompt, conns>>

\* lines 187-189: the prompt is handed to a worker thread
GenerateCall(t) ==
    /\ pc[t] = "generate"
    /\ scheduled(t)
    /\ UNCHANGED startupVars
    /\ goto_next(t)
    /\ note(t, "call")
    /\ prompt' = [prompt EXCEPT ![t] =
            build_prompt(personas_get(personas, user_identifier[t],
                                      default_persona), message_text)]
    /\ UNCHANGED <<users, messages, user_identifier, pic_bound,
                   profile_pic_rel_path, sent, adminOps, sender, conns>>

\* lines 189-190: the thread returns a response, or raises
GenerateReturn(t) ==
    /\ pc[t] = "generating"
    /\ scheduled(t)
    /\ UNCHANGED startupVars
    /\ \/ /\ goto_next(t)
          /\ note(t, "ret")
       \/ /\ \E db \in BOOLEAN : raise(t, db)
          /\ note(t, "ret_err")
    /\ UNCHANGED <<users, messages, user_identifier, pic_bound,
                   profile_pic_rel_path, sent, adminOps,
                   sender, prompt, conns>>

\* lines 192-193
Respond(t) ==
    /\ pc[t] = "respond"
    /\ scheduled(t)
    /\ UNCHANGED startupVars
    /\ \/ /\ sent' = [sent EXCEPT ![t] = Append(@, "gemini_response")]
          /\ goto_next(t)
          /\ note(t, "reply")
       \/ /\ \E db \in BOOLEAN : raise(t, db)
          /\ UNCHANGED <<sent, hist>>
    /\ UNCHANGED <<users, messages, user_identifier, pic_bound,
                   profile_pic_rel_path, adminOps, sender, prompt, conns>>

\* line 194
LogOut(t) ==
    /\ pc[t] = "log_out"
    /\ scheduled(t)
    /\ UNCHANGED startupVars
    /\ \E ok \in BOOLEAN :
        /\ messages' = log_to_db(messages, ok, t, "out", user_identifier[t],
                                 "gemini_response", profile_pic_rel_path[t])
        /\ note(t, IF ok THEN "out" ELSE "out_lost")
        /\ logged(t, ok)
        /\ IF log_to_db_raises(ok) THEN raise(t, FALSE) ELSE goto_next(t)
    /\ UNCHANGED <<users, user_identifier, pic_bound, profile_pic_rel_path,
                   sent, adminOps, sender, prompt>>

\* line 186: leaving the typing context after line 194
TypingExit(t) ==
    /\ pc[t] = "typing_exit"
    /\ scheduled(t)
    /\ UNCHANGED startupVars
    /\ \/ goto_next(t)
       \/ \E db \in BOOLEAN : raise(t, db)
    /\ UNCHANGED <<users, messages, user_identifier, pic_bound,
                   profile_pic_rel_path, sent, hist, adminOps,
                   sender, prompt, conns>>

\* lines 196-201
Except(t) ==
    /\ pc[t] = "except"
    /\ scheduled(t)
    /\ UNCHANGED startupVars
    /\ IF ~logs_error(exc[t])
       THEN /\ goto_next(t)
            /\ UNCHANGED <<messages, hist, conns>>
       ELSE IF ~pic_bound[t]
       THEN \* line 201 reads profile_pic_rel_path before any assignment:
            \* UnboundLocalError, raised inside the except clause
            /\ escape(t, "except")
            /\ UNCHANGED <<messages, hist, conns>>
       ELSE \E ok \in BOOLEAN :
            /\ logged(t, ok)
            /\ messages' = log_to_db(messages, ok, t, "out",
                                user_identifier[t], "error_message",
                                profile_pic_rel_path[t])
            /\ note(t, IF ok THEN "diag" ELSE "diag_lost")
            /\ IF log_to_db_raises(ok)
               THEN escape(t, "log_diag")
               ELSE goto_next(t)
    /\ UNCHANGED <<users, user_identifier, pic_bound, profile_pic_rel_path,
                   sent, adminOps, sender, prompt>>

\* line 202
Apologize(t) ==
    /\ pc[t] = "apologize"
    /\ scheduled(t)
    /\ UNCHANGED startupVars
    /\ \/ /\ sent' = [sent EXCEPT ![t] = Append(@, "apology")]
          /\ goto_next(t)
          /\ note(t, "apology")
       \/ /\ escape(t, "apologize")
          /\ UNCHANGED <<sent, hist>>
    /\ UNCHANGED <<users, messages, user_identifier, pic_bound,
                   profile_pic_rel_path, adminOps, sender, prompt, conns>>

\* ---------------------------------------------------------------- admin
\* the out-of-band surface: UPDATE users SET blocked = b WHERE user_id = u
AdminSetBlocked(u, b) ==
    /\ adminOps < MaxAdminOps
    /\ UNCHANGED startupVars
    /\ \E r \in users : r.user_id = u /\ r.blocked # b
    /\ users' = {IF r.user_id = u THEN [r EXCEPT !.blocked = b] ELSE r
                    : r \in users}
    /\ adminOps' = adminOps + 1
    /\ UNCHANGED <<messages, pc, user_identifier, pic_bound,
                   profile_pic_rel_path, exc, sent, hist, failed,
                   sender, prompt, conns>>

\* ---------------------------------------------------------------- spec
Next ==
    \/ \E t \in Tasks : Dispatch(t)
    \/ \E t \in Tasks : Connect(t)
    \/ \E t \in Tasks : BlockCheck(t)
    \/ \E t \in Tasks : Upsert(t)
    \/ \E t \in Tasks : Download(t)
    \/ \E t \in Tasks : LogIn(t)
    \/ \E t \in Tasks : TypingEnter(t)
    \/ \E t \in Tasks : GenerateCall(t)
    \/ \E t \in Tasks : GenerateReturn(t)
    \/ \E t \in Tasks : Respond(t)
    \/ \E t \in Tasks : LogOut(t)
    \/ \E t \in Tasks : TypingExit(t)
    \/ \E t \in Tasks : Except(t)
    \/ \E t \in Tasks : Apologize(t)
    \/ \E u \in UserIds, b \in BOOLEAN : AdminSetBlocked(u, b)

Spec == Init /\ [][Next]_vars

TypeOK ==
    /\ \A r \in users : r.user_id \in UserIds /\ r.blocked \in BOOLEAN
    /\ \A t \in Tasks : pc[t] \in DOMAIN [p \in Ended |-> 0] \/ pc[t] \in
            {"idle", "connect", "block_check", "upsert", "download", "log_in",
             "typing", "generate", "generating", "respond", "log_out",
             "typing_exit", "except", "apologize"}
    /\ \A t \in Tasks : Len(sent[t]) <= 2
    /\ adminOps \in 0..MaxAdminOps

\* ---------------------------------------------------------------- fairness
\* the steps of a handler the event loop or the store completes on its own:
\* every one but the arrival of the event and the return of the model call
HandlerProgress(t) ==
    \/ Connect(t)
    \/ BlockCheck(t)
    \/ Upsert(t)
    \/ Download(t)
    \/ LogIn(t)
    \/ TypingEnter(t)
    \/ GenerateCall(t)
    \/ Respond(t)
    \/ LogOut(t)
    \/ TypingExit(t)
    \/ Except(t)
    \/ Apologize(t)

\* the task whose model call may never return (line 189 sets no timeout)
Hanging == 1

\* The event loop resumes every task that can run, and every external call
\* returns or raises, except that the model call of the task Hanging may
\* stay in its thread for ever.
SpecHang ==
    /\ Spec
    /\ \A t \in Tasks : WF_vars(HandlerProgress(t))
    /\ \A t \in Tasks \ {Hanging} : WF_vars(GenerateReturn(t))

\* The event loop resumes every task that can run, and every external call
\* returns or raises, the model call included.
SpecLive ==
    /\ Spec
    /\ \A t \in Tasks : WF_vars(HandlerProgress(t))
    /\ \A t \in Tasks : WF_vars(GenerateReturn(t))

\* ---------------------------------------------------------------- prompt
\* Lines 187-188 alone, over a range of configurations, senders and texts.
PromptKeys == {Ada, Odd}
PromptUsers == {Ada, Odd, <<"bob">>}
PersonaTexts == {<<"formal">>, <<>>}
DefaultTexts == {<<"brief">>, <<>>}
MessageTexts == {<<>>, <<"hello">>, <<"a", "\n", "b">>}

\* every persona table over the keys
PersonaTables == UNION {[K -> PersonaTexts] : K \in SUBSET PromptKeys}

InitPrompt ==
    /\ HandlersIdle
    /\ store = Unused
    /\ parse = Unused
    /\ \E ps \in PersonaTables, d \in DefaultTexts,
          u \in PromptUsers, text \in MessageTexts :
        prompt_call = [state |-> "ready", personas |-> ps,
                       default_persona |-> d, system_prompt |-> system_prompt,
                       user_identifier |-> u, message_text |-> text,
                       prompt |-> <<>>]

\* lines 187-188
BuildPrompt ==
    /\ prompt_call.state = "ready"
    /\ prompt_call' = [prompt_call EXCEPT
            !.state = "done",
            !.prompt = build_prompt(
                personas_get(prompt_call.personas, prompt_call.user_identifier,
                             prompt_call.default_persona),
                prompt_call.message_text)]
    /\ UNCHANGED <<handlerVars, store, parse>>

NextPrompt == BuildPrompt

SpecPrompt == InitPrompt /\ [][NextPrompt]_vars

\* ---------------------------------------------------------------- init_db
\* how many times start-up runs init_db against the same store
MaxRuns == 3

\* the two tables init_db is responsible for
SchemaTables == {"messages", "users"}

\* what to_regclass answers at lines 84 and 99 would be if it never found a
\* table
table_missing_always(visible, name) == TRUE

\* lines 83-84 and 98-99: to_regclass('public.<name>') is None exactly when
\* the connection sees no relation of that name
table_missing(visible, name) == name \notin visible

\* lines 86-95 and 101-106: CREATE TABLE fails on a table that exists
create_table_fails(visible, name) == name \in visible

\* the tables the open transaction sees: the committed ones and its own
seen(s) == s.tables \cup s.pending

InitInitDb ==
    /\ HandlersIdle
    /\ prompt_call = Unused
    /\ parse = Unused
    /\ \E start \in SUBSET SchemaTables :
            store = [state |-> "init_db", pc |-> "connect", run |-> 1,
                     start |-> start, tables |-> start, pending |-> {},
                     made |-> {}, error |-> "none"]

\* lines 111-113: any exception is printed and the process exits; the server
\* drops the transaction of the abandoned connection
init_db_exit(cause) ==
    store' = [store EXCEPT !.pc = "exit", !.pending = {}, !.error = cause]

\* lines 79-80
InitDbConnect ==
    /\ store.state = "init_db"
    /\ store.pc = "connect"
    /\ \/ store' = [store EXCEPT !.pc = "messages"]
       \/ init_db_exit("store")
    /\ UNCHANGED <<handlerVars, prompt_call, parse>>

\* lines 83-95 for "messages", lines 98-106 for "users"
init_db_ensure(name, next) ==
    \/ init_db_exit("store")
    \/ /\ ~table_missing(seen(store), name)
       /\ store' = [store EXCEPT !.pc = next]
    \/ /\ table_missing(seen(store), name)
       /\ IF create_table_fails(seen(store), name)
          THEN init_db_exit("duplicate")
          ELSE store' = [store EXCEPT !.pc = next,
                                      !.pending = @ \cup {name}]

InitDbMessages ==
    /\ store.state = "init_db"
    /\ store.pc = "messages"
    /\ init_db_ensure("messages", "users")
    /\ UNCHANGED <<handlerVars, prompt_call, parse>>

InitDbUsers ==
    /\ store.state = "init_db"
    /\ store.pc = "users"
    /\ init_db_ensure("users", "commit")
    /\ UNCHANGED <<handlerVars, prompt_call, parse>>

\* lines 107-110
InitDbCommit ==
    /\ store.state = "init_db"
    /\ store.pc = "commit"
    /\ \/ store' = [store EXCEPT !.pc = "done",
                                 !.tables = @ \cup store.pending,
                                 !.made = @ \cup store.pending,
                                 !.pending = {}]
       \/ init_db_exit("store")
    /\ UNCHANGED <<handlerVars, prompt_call, parse>>

\* line 212: the next start of the program runs init_db again
InitDbAgain ==
    /\ store.state = "init_db"
    /\ store.pc \in {"done", "exit"}
    /\ store.run < MaxRuns
    /\ store' = [store EXCEPT !.pc = "connect", !.run = @ + 1,
                              !.start = store.tables, !.error = "none"]
    /\ UNCHANGED <<handlerVars, prompt_call, parse>>

NextInitDb ==
    \/ InitDbConnect
    \/ InitDbMessages
    \/ InitDbUsers
    \/ InitDbCommit
    \/ InitDbAgain

SpecInitDb == InitInitDb /\ [][NextInitDb]_vars

\* ---------------------------------------------------------------- parser
\* longest content of prompt_config.txt, in tokens
MaxContentLen == 5

\* the tokens a content is made of: the two brackets, the three kinds of
\* header text, a user id, a word and a blank
ContentTokens ==
    {"[", "]", "system_prompt", "persona:", "default_persona", "bob", "A", " "}

RECURSIVE SeqsUpTo(_, _)
SeqsUpTo(S, n) ==
    IF n = 0
    THEN {<<>>}
    ELSE LET shorter == SeqsUpTo(S, n - 1)
         IN  shorter \cup {Append(s, x) : s \in {q \in shorter : Len(q) = n - 1},
                                           x \in S}

Contents == SeqsUpTo(ContentTokens, MaxContentLen)

Contains(s, c) == \E i \in 1..Len(s) : s[i] = c
FirstIndex(s, c) ==
    CHOOSE i \in 1..Len(s) : s[i] = c /\ \A j \in 1..(i - 1) : s[j] # c

\* str.split(c): the pieces between the occurrences of c
RECURSIVE split(_, _)
split(s, c) ==
    IF ~Contains(s, c)
    THEN <<s>>
    ELSE LET i == FirstIndex(s, c)
         IN  <<SubSeq(s, 1, i - 1)>> \o split(SubSeq(s, i + 1, Len(s)), c)

\* str.split(c, 1): one piece when c does not occur, else the text before
\* the first c and everything after it
split_once(s, c) ==
    IF ~Contains(s, c)
    THEN <<s>>
    ELSE LET i == FirstIndex(s, c)
         IN  <<SubSeq(s, 1, i - 1), SubSeq(s, i + 1, Len(s))>>

\* line 38: content.split('[')[1:]
sections_of(content) == Tail(split(content, "["))

\* line 40 unpacks two values: it raises ValueError on any other number
unpack_raises(pieces) == Len(pieces) # 2

\* line 44: header.startswith('persona:')
is_persona_header(header) == Len(header) >= 1 /\ header[1] = "persona:"

\* line 45: header.split(':', 1)[1]
persona_user(header) == Tail(header)

InitParse ==
    /\ HandlersIdle
    /\ prompt_call = Unused
    /\ store = Unused
    /\ \E content \in Contents :
            parse = [state |-> "parse", pc |-> "split", content |-> content,
                     sections |-> <<>>, system_prompt |-> <<>>,
                     personas |-> <<>>, default_persona |-> <<>>]

\* lines 34-38
ParseSplit ==
    /\ parse.state = "parse"
    /\ parse.pc = "split"
    /\ parse' = [parse EXCEPT !.pc = "loop",
                              !.sections = sections_of(parse.content)]
    /\ UNCHANGED <<handlerVars, prompt_call, store>>

\* lines 39-48, one turn of the loop
ParseSection ==
    /\ parse.state = "parse"
    /\ parse.pc = "loop"
    /\ parse.sections # <<>>
    /\ LET pieces == split_once(Head(parse.sections), "]")
       IN  IF unpack_raises(pieces)
           THEN parse' = [parse EXCEPT !.pc = "raised"]
           ELSE LET header == pieces[1]
                    body == strip(pieces[2])
                    rest == Tail(parse.sections)
                IN  IF header = <<"system_prompt">>
                    THEN parse' = [parse EXCEPT !.sections = rest,
                                                !.system_prompt = body]
                    ELSE IF is_persona_header(header)
                    THEN parse' = [parse EXCEPT
                                     !.sections = rest,
                                     !.personas =
                                        (persona_user(header) :> body) @@ @]
                    ELSE IF header = <<"default_persona">>
                    THEN parse' = [parse EXCEPT !.sections = rest,
                                                !.default_persona = body]
                    ELSE parse' = [parse EXCEPT !.sections = rest]
    /\ UNCHANGED <<handlerVars, prompt_call, store>>

\* line 50
ParseReturn ==
    /\ parse.state = "parse"
    /\ parse.pc = "loop"
    /\ parse.sections = <<>>
    /\ parse' = [parse EXCEPT !.pc = "returned"]
    /\ UNCHANGED <<handlerVars, prompt_call, store>>

NextParse ==
    \/ ParseSplit
    \/ ParseSection
    \/ ParseReturn

SpecParse == InitParse /\ [][NextParse]_vars

\* ---------------------------------------------------------------- observers
Has(t, label) == \E i \in 1..Len(hist[t]) : hist[t][i] = label

\* position of the first occurrence of label in the steps of event t, else 0
Pos(t, label) ==
    IF Has(t, label)
    THEN CHOOSE i \in 1..Len(hist[t]) :
            /\ hist[t][i] = label
            /\ \A j \in 1..(i - 1) : hist[t][j] # label
    ELSE 0

\* label b was taken only after label a
Precedes(t, a, b) == Has(t, b) => (Has(t, a) /\ Pos(t, a) < Pos(t, b))

\* the distinct rows event t appended, and how many rows of a kind it appended
RowsOf(t) == {r \in BagToSet(messages) : r.ev = t}
Copies(S) == BagCardinality([r \in S |-> messages[r]])
InRows(t) == Copies({r \in RowsOf(t) : r.direction = "in"})
OutRows(t) == Copies({r \in RowsOf(t) : r.direction = "out"})
OutRowsWith(t, text) ==
    Copies({r \in RowsOf(t) : r.direction = "out" /\ r.text = text})
HasEnded(t) == pc[t] \in Ended

\* ---------------------------------------------------------------- claims

\* C1 as stated: every event whose sender was not blocked at the block check
\* has exactly one 'in' row when its handler has ended, whatever failed.
C1_ExactlyOneInRow ==
    \A t \in Tasks :
        (HasEnded(t) /\ Has(t, "check:clear")) => InRows(t) = 1

\* C1 as amended: an event never has more than one 'in' row, and it has
\* exactly one when the upsert, the avatar download and the insert itself
\* succeeded, whichever later step succeeds or fails.
C1_InRowWhenLogged ==
    \A t \in Tasks :
        /\ InRows(t) <= 1
        /\ ( /\ HasEnded(t)
             /\ Has(t, "check:clear")
             /\ failed[t] \cap {"upsert", "download"} = {}
             /\ ~Has(t, "in_lost") ) => InRows(t) = 1
        /\ ( \/ failed[t] \cap {"connect", "block_check", "upsert", "download"} # {}
             \/ Has(t, "in_lost") ) => InRows(t) = 0

C1_Witness ==
    \E t \in Tasks :
        /\ pc[t] = "errored"
        /\ "generating" \in failed[t]
        /\ InRows(t) = 1

\* C2: an event whose sender had blocked=true at the block check ends there:
\* no messages row, no users change, no model call, no reply of any kind.
C2_BlockedIsSilent ==
    \A t \in Tasks :
        Has(t, "check:blocked") =>
            /\ pc[t] = "ignored"
            /\ RowsOf(t) = {}
            /\ sent[t] = <<>>
            /\ hist[t] = <<"check:blocked">>
            /\ failed[t] = {}

C2_Witness ==
    \E t \in Tasks : Has(t, "check:blocked") /\ pc[t] = "ignored"

\* C3 as stated: every ended event of a sender who passed the block check got
\* a reply: the apology when a step failed, the model reply otherwise.
C3_AlwaysAReply ==
    \A t \in Tasks :
        (HasEnded(t) /\ Has(t, "check:clear")) =>
            IF failed[t] = {}
            THEN sent[t] = <<"gemini_response">>
            ELSE \E i \in 1..Len(sent[t]) : sent[t][i] = "apology"

\* C4 as stated: no exception leaves handle_new_message.
C4_NothingEscapes ==
    \A t \in Tasks : pc[t] # "raised"

\* C5 as stated: after a failed model call exactly one apology and no model
\* reply is sent, at most one diagnostic row is appended (none when the text
\* holds "database"), and the handler does not raise.
C5_ModelFailure ==
    \A t \in Tasks :
        (HasEnded(t) /\ "generating" \in failed[t]) =>
            /\ sent[t] = <<"apology">>
            /\ OutRows(t) <= 1
            /\ exc[t] = "database" => OutRows(t) = 0
            /\ pc[t] # "raised"

C7_OutRowBeforeReply ==
    \A t \in Tasks :
        /\ (Has(t, "in") /\ Has(t, "call")) => Pos(t, "in") < Pos(t, "call")
        /\ (Has(t, "ret") /\ Has(t, "out")) => Pos(t, "ret") < Pos(t, "out")
        /\ (Has(t, "out") /\ Has(t, "reply")) => Pos(t, "out") < Pos(t, "reply")

\* C7 as amended: the inbound append comes before the model call, the model
\* returns before the reply is sent, and the reply is sent before the
\* outbound row is appended; a diagnostic row comes before the apology.
C7_ReplyBeforeOutRow ==
    \A t \in Tasks :
        /\ Has(t, "call") =>
            \/ Has(t, "in") /\ Pos(t, "in") < Pos(t, "call")
            \/ Has(t, "in_lost") /\ Pos(t, "in_lost") < Pos(t, "call")
        /\ Precedes(t, "call", "ret")
        /\ Precedes(t, "ret", "reply")
        /\ Precedes(t, "reply", "out")
        /\ Precedes(t, "reply", "out_lost")
        /\ (Has(t, "diag") /\ Has(t, "apology")) =>
                Pos(t, "diag") < Pos(t, "apology")

C7_Witness ==
    \E t \in Tasks :
        /\ pc[t] = "replied"
        /\ InRows(t) = 1
        /\ OutRows(t) = 1
        /\ sent[t] = <<"gemini_response">>

\* C8: no step of a handler changes or deletes a users row; a handler step
\* adds at most a row with blocked = FALSE for a user_id that had no row.
C8_UsersRowsKept ==
    [][ adminOps' = adminOps =>
          /\ \A r \in users : r \in users'
          /\ \A r \in users' \ users :
                /\ r.blocked = FALSE
                /\ \A q \in users : q.user_id # r.user_id ]_vars

C8_Witness ==
    \E t \in Tasks :
        /\ Has(t, "upsert:blocked")
        /\ [user_id |-> user_identifier[t], blocked |-> TRUE] \in users

\* C9: a store error in log_to_db never reaches the handler: the step after
\* the append runs as if it had succeeded, so with no other failure the model
\* is called, the model reply is sent, no apology is sent and the handler
\* ends normally, with the inbound and the outbound append both lost.
C9_LostRowsDoNotStop ==
    \A t \in Tasks :
        /\ failed[t] \cap {"log_in", "log_out", "log_diag"} = {}
        /\ Has(t, "out_lost") => sent[t][1] = "gemini_response"
        /\ ( /\ HasEnded(t)
             /\ failed[t] = {}
             /\ Has(t, "in_lost") \/ Has(t, "out_lost") ) =>
                /\ pc[t] = "replied"
                /\ Has(t, "call")
                /\ sent[t] = <<"gemini_response">>

C9_Witness ==
    \E t \in Tasks :
        /\ pc[t] = "replied"
        /\ Has(t, "in_lost")
        /\ Has(t, "out_lost")
        /\ RowsOf(t) = {}

\* C10 as stated: an event that appended rows resolved its avatar once, and
\* each of its rows carries profile_pics/<user_id>.jpg when the download
\* returned a path and no path otherwise.
C10_RowsCarryAvatarPath ==
    \A t \in Tasks :
        RowsOf(t) # {} =>
            /\ Cardinality({i \in 1..Len(hist[t]) :
                    hist[t][i] \in {"avatar", "no_avatar"}}) = 1
            /\ \A r \in RowsOf(t) :
                r.profile_pic_path =
                    IF Has(t, "avatar")
                    THEN <<"profile_pics", "/">> \o user_identifier[t]
                                                 \o <<".jpg">>
                    ELSE None

\* C11: the prompt given to the model is the persona keyed by the user
\* identifier when the table has one and default_persona otherwise, then two
\* newlines, then the message text; the system prompt is no part of it.
C11_PromptIsPersonaThenText ==
    prompt_call.state = "done" =>
        /\ \/ /\ prompt_call.user_identifier \in DOMAIN prompt_call.personas
              /\ prompt_call.prompt =
                    prompt_call.personas[prompt_call.user_identifier]
                        \o <<"\n", "\n">> \o prompt_call.message_text
           \/ /\ prompt_call.user_identifier \notin DOMAIN prompt_call.personas
              /\ prompt_call.prompt =
                    prompt_call.default_persona
                        \o <<"\n", "\n">> \o prompt_call.message_text
        /\ \A i \in 1..Len(prompt_call.prompt) :
                prompt_call.prompt[i] \notin
                    {prompt_call.system_prompt[j] :
                        j \in 1..Len(prompt_call.system_prompt)}

C11_Witness ==
    /\ prompt_call.state = "done"
    /\ prompt_call.user_identifier \notin DOMAIN prompt_call.personas
    /\ prompt_call.default_persona # <<>>
    /\ prompt_call.personas # <<>>
    /\ prompt_call.message_text # <<>>

\* C12: init_db never trips over a table that exists; a run that completes
\* leaves exactly the users and messages tables whatever subset of them it
\* started from; a run on a store that already has both creates nothing; and
\* a run the store fails leaves the tables as they were.
C12_InitDbIdempotent ==
    store.state = "init_db" =>
        /\ store.error # "duplicate"
        /\ store.pc = "done" =>
                (store.tables = SchemaTables /\ store.error = "none")
        /\ store.start = SchemaTables =>
                (store.pending = {} /\ store.tables = store.start)
        /\ store.pc = "exit" => store.tables = store.start
        /\ store.start \subseteq store.tables

C12_Witness ==
    /\ store.state = "init_db"
    /\ store.run = 2
    /\ store.pc = "done"
    /\ store.made = SchemaTables
    /\ store.start = SchemaTables

\* the sections of a content that have a closing bracket, and the trimmed
\* body of the last of them under a given header (empty when there is none)
ClosedSections(content) ==
    SelectSeq(sections_of(content), LAMBDA sec : Contains(sec, "]"))
SectionBody(content, header) ==
    LET secs == ClosedSections(content)
        hits == {i \in 1..Len(secs) : split_once(secs[i], "]")[1] = header}
    IN  IF hits = {}
        THEN <<>>
        ELSE LET last == CHOOSE i \in hits : \A j \in hits : j <= i
             IN  strip(split_once(secs[last], "]")[2])
PersonaHeaders(content) ==
    {split_once(ClosedSections(content)[i], "]")[1] :
        i \in 1..Len(ClosedSections(content))}

\* C13: the parser never fails on a content, whatever stands before the first
\* header and whichever header lacks its closing bracket, and it returns the
\* trimmed body of every section that has one.
C13_ParserSkipsMalformed ==
    parse.state = "parse" =>
        /\ parse.pc # "raised"
        /\ parse.pc = "returned" =>
            /\ parse.system_prompt =
                    SectionBody(parse.content, <<"system_prompt">>)
            /\ parse.default_persona =
                    SectionBody(parse.content, <<"default_persona">>)
            /\ \A h \in PersonaHeaders(parse.content) :
                    is_persona_header(h) =>
                        /\ persona_user(h) \in DOMAIN parse.personas
                        /\ parse.personas[persona_user(h)] =
                                SectionBody(parse.content, h)

\* sender profiles on which the derivation is compared with its description:
\* with and without username, with and without last name, with blanks around
\* the names
Profiles ==
    [username : {<<>>, <<"ada99">>},
     first_name : {<<"Ada">>, <<" ", "Ada">>, Odd},
     last_name : {<<>>, <<"Lovelace">>, <<"Lovelace", " ">>}]

\* the identifier as it is described: the username when there is one, else
\* first name, blank, last name, trimmed
DescribedIdentifier(s) ==
    IF Len(s.username) > 0
    THEN s.username
    ELSE strip(s.first_name \o <<" ">> \o s.last_name)

\* C14: the user identifier is the username when it is non-empty and else
\* "first_name last_name" trimmed, a missing last name being empty; the block
\* check, the upsert, the persona lookup and every messages row of an event
\* use that one identifier.
C14_OneIdentifierPerEvent ==
    /\ \A s \in Profiles : user_identifier_of(s) = DescribedIdentifier(s)
    /\ \A t \in Tasks :
        pc[t] # "idle" =>
            LET id == DescribedIdentifier(sender[t])
            IN  /\ user_identifier[t] = id
                /\ \A r \in RowsOf(t) : r.user_id = id
                /\ Has(t, "check:blocked") => \E r \in users : r.user_id = id
                /\ (Has(t, "upsert:clear") \/ Has(t, "upsert:blocked")) =>
                        \E r \in users : r.user_id = id
                /\ Has(t, "call") =>
                        prompt[t] =
                            (IF id \in DOMAIN personas
                             THEN personas[id]
                             ELSE default_persona)
                                \o <<"\n", "\n">> \o message_text

C14_Witness ==
    \E t \in Tasks :
        /\ pc[t] = "replied"
        /\ sender[t].username = <<>>
        /\ user_identifier[t] = Odd
        /\ InRows(t) = 1
        /\ OutRows(t) = 1
        /\ Has(t, "upsert:clear")

\* the labels the steps of the pipeline leave, in the order of the pipeline,
\* and the labels of the failure path
Stages ==
    << {"check:clear", "check:blocked"},
       {"upsert:clear", "upsert:blocked"},
       {"avatar", "no_avatar"},
       {"in", "in_lost"},
       {"call"},
       {"ret", "ret_err"},
       {"reply"},
       {"out", "out_lost"} >>
FailureLabels == {"diag", "diag_lost", "apology"}

\* C15: the steps of an event finish in the order block check, user upsert
\* (committed), avatar resolution, inbound append, model call, reply send,
\* outbound append: the i-th step an event has finished is the i-th of these,
\* none is skipped or repeated, and once the failure path has begun no step
\* of the pipeline follows.
C15_StepsInPipelineOrder ==
    \A t \in Tasks :
        /\ \A i \in 1..Len(hist[t]) :
                \/ hist[t][i] \in FailureLabels
                \/ i <= Len(Stages) /\ hist[t][i] \in Stages[i]
        /\ \A i, j \in 1..Len(hist[t]) :
                (i < j /\ hist[t][i] \in FailureLabels) =>
                    hist[t][j] \in FailureLabels
        /\ Has(t, "no_avatar") \/ Has(t, "avatar") =>
                \E r \in users : r.user_id = user_identifier[t]
        /\ pc[t] \in {"typing_exit", "replied"} => Len(hist[t]) = Len(Stages)

C15_Witness ==
    \E t \in Tasks :
        /\ pc[t] = "replied"
        /\ hist[t] = <<"check:clear", "upsert:clear", "avatar", "in",
                       "call", "ret", "reply", "out">>
        /\ \E s \in Tasks \ {t} : pc[s] \notin Ended \cup {"idle"}

\* the positions at which a handler waits for the avatar download, the typing
\* indicator, the model or a transport send
AwaitingOutside ==
    {"download", "typing", "generating", "respond", "typing_exit", "apologize"}

\* C16: a handler that has ended, whichever way, has closed every connection
\* it opened, and a handler holds no open connection while it waits for the
\* avatar download, the model call or a transport send.
C16_NoConnectionLeftOpen ==
    \A t \in Tasks :
        pc[t] \in Ended \cup AwaitingOutside => conns[t] = 0

\* C17: while the model call of one task may hang for ever, every other task
\* whose event has arrived ends with its reply sent and its 'out' row
\* appended, unless its sender is blocked or one of its own calls fails.
C17_HangStallsOnlyItsTask ==
    \A t \in Tasks \ {Hanging} :
        (pc[t] = "connect") ~>
            \/ pc[t] = "replied" /\ Has(t, "reply") /\ OutRows(t) = 1
            \/ pc[t] = "ignored"
            \/ failed[t] # {}
            \/ Has(t, "out_lost")

C17_Witness ==
    \E t \in Tasks \ {Hanging} :
        /\ pc[Hanging] = "generating"
        /\ pc[t] = "replied"
        /\ Pos(t, "call") > 0
        /\ Has(t, "reply")
        /\ OutRows(t) = 1
        /\ failed[t] = {}

\* how far a handler has come: its positions in the order of the code, the
\* failure path after the pipeline, every end last
Rank(p) ==
    CASE p = "idle"        -> 0
      [] p = "connect"     -> 1
      [] p = "block_check" -> 2
      [] p = "upsert"      -> 3
      [] p = "download"    -> 4
      [] p = "log_in"      -> 5
      [] p = "typing"      -> 6
      [] p = "generate"    -> 7
      [] p = "generating"  -> 8
      [] p = "respond"     -> 9
      [] p = "log_out"     -> 10
      [] p = "typing_exit" -> 11
      [] p = "except"      -> 12
      [] p = "apologize"   -> 13
      [] OTHER             -> 14
Times(t, label) == Cardinality({i \in 1..Len(hist[t]) : hist[t][i] = label})

\* C18: a handler never goes back to a position it has left, so no step is
\* attempted twice and the model is called at most once per event; a handler
\* that has ended changes nothing more for its event; and when every call
\* returns or raises, every handler whose event arrived ends (again and
\* again every handler is at an end or still waits for its event, and an end
\* is never left).
C18_NoRetryAndTerminates ==
    /\ [][\A t \in Tasks :
            /\ pc'[t] # pc[t] => Rank(pc'[t]) > Rank(pc[t])
            /\ pc'[t] = pc[t] =>
                    (hist'[t] = hist[t] /\ sent'[t] = sent[t])
            /\ Times(t, "call")' <= 1
            /\ pc[t] \in Ended =>
                    /\ pc'[t] = pc[t]
                    /\ \A r \in BagToSet(messages') :
                            r.ev = t =>
                                /\ r \in BagToSet(messages)
                                /\ messages'[r] = messages[r]]_vars
    /\ []<>(\A t \in Tasks : pc[t] \in Ended \cup {"idle"})

C18_Witness ==
    \E t \in Tasks :
        /\ pc[t] = "errored"
        /\ Times(t, "call") = 1
        /\ "generating" \in failed[t]
        /\ Has(t, "apology")

\* C19: an event whose model reply was delivered gets no apology and no
\* diagnostic 'out' row, so it has at most one 'out' row and one message sent
\* to its sender.
C19_ReplyOrApologyNotBoth ==
    \A t \in Tasks :
        Has(t, "reply") =>
            /\ ~Has(t, "apology")
            /\ ~Has(t, "diag")
            /\ OutRows(t) <= 1
            /\ Len(sent[t]) <= 1

Upserted(t) == Has(t, "upsert:clear") \/ Has(t, "upsert:blocked")
UpsertPos(t) ==
    IF Has(t, "upsert:clear") THEN Pos(t, "upsert:clear")
                              ELSE Pos(t, "upsert:blocked")

\* C20: every row of messages, inbound, outbound or diagnostic, carries a
\* user_id that has a row in users, and the event that appended it had
\* committed its upsert before it appended the row.
C20_RowsReferKnownUsers ==
    /\ \A r \in BagToSet(messages) : \E u \in users : u.user_id = r.user_id
    /\ \A t \in Tasks :
        \A label \in {"in", "out", "diag"} :
            Has(t, label) => (Upserted(t) /\ UpsertPos(t) < Pos(t, label))
    /\ \A t \in Tasks : RowsOf(t) # {} => Upserted(t)

C20_Witness ==
    \E t \in Tasks :
        /\ pc[t] = "errored"
        /\ InRows(t) = 1
        /\ OutRowsWith(t, "error_message") = 1
        /\ "generating" \in failed[t]
        /\ \E s \in Tasks \ {t} : "upsert" \in failed[s]
====
